---- MODULE Spec2Model ----
(***************************************************************************)
(* Model of the agent patterns of the NestJS / AI SDK streaming reference: *)
(* the six backend services of BACKEND_PATTERNS.md behind their            *)
(* controller, validateInput and withRetry of examples/base-ai.service.ts  *)
(* and the defensive JSON component of                                     *)
(* examples/defensive-json.component.tsx.                                  *)
(*                                                                         *)
(* Every program has its own variables; a specification runs one of them   *)
(* and the variables of the others stay at their idle values.  Scores are  *)
(* kept in tenths (8.5 is 85) so that they stay integers.                  *)
(***************************************************************************)
EXTENDS Integers, Sequences, FiniteSets, TLC

VARIABLES
    \* ---- Evaluator-Optimizer (optimizeTranslation)
    eoPc,               \* position in optimizeTranslation
    maxIterations,      \* const maxIterations
    currentTranslation, \* let currentTranslation
    iteration,          \* let iteration
    iterations,         \* const iterations = []
    eoCalls,            \* AI SDK calls issued so far, in order
    eoExit,             \* how the while loop was left: "none" | "break" | "guard"
    \* ---- Sequential (generateMarketingCopy)
    seqPc, seqInput, seqText, seqEvaluation, seqCalls,
    \* ---- Routing (handleCustomerQuery)
    rtPc, rtQuery, rtClassification, rtCalls,
    \* ---- Parallel (reviewCode)
    parPc, parBranch, parAll, parCalls,
    \* ---- Orchestrator-Worker (implementFeature)
    owPc, owPlan, owTask, owAll, owCalls,
    \* ---- Multi-Step Tool Usage (solveMathProblem)
    tuPc,
    tuCeiling,          \* generation steps the stream may take
    tuStep,             \* generation steps taken
    tuPending,          \* tool calls requested by the current step, not yet executed
    tuHistory,          \* tool results, in the order they were appended
    tuEnd,              \* "none" | "final" | "truncated" | "thrown"
    tuCalls,
    \* ---- PatternController.handleRequest and the response
    ctlPc,              \* "idle" | "await" | "piping" | "closed" | "hung"
    resLog,             \* operations on the response, in order
    resStatus,          \* 0 while no status is set
    resBody,
    finalObject,        \* the final object the stream delivered
    \* ---- ExampleAIService.processExample (validateInput, withRetry)
    exPc, exInput, exMaxRetries,
    attempt, delayMs, lastError,
    exCalls,            \* invocations of the operation and their outcomes
    exDelays,           \* the delays waited, in order
    exResult,           \* position in exCalls of the invocation whose result is returned
    exThrown,           \* the error processExample threw
    \* ---- Defensive JSON component
    fullText, messages, isLoading, parsedData, parseError, emitted,
    \* ---- the client of a request: stop() of useObject was called
    aborted,
    \* ---- model selection
    smLog,              \* the selections made, with the answer of both routines
    \* ---- CachedAIService.generateWithCache
    cache,              \* this.cache
    now,                \* Date.now()
    caCalls,            \* the calls of generateWithCache, in order
    genLog,             \* the invocations of generators, in order
    \* ---- AgentInteraction
    agInput, agIsLoading, agValidationError,
    agSubmits,          \* the submit({ input }) calls, in order
    \* ---- SequentialProcessingDisplay
    sdResult,           \* the partial object
    sdSteps,            \* the active step of every render, in order
    \* ---- useDebouncedAIStream
    dbInput, dbDebounced,
    dbTimer,            \* the pending timeout of useDebounced
    dbSubmits           \* the submit({ input }) calls, in order

eoVars  == <<eoPc, maxIterations, currentTranslation, iteration, iterations, eoCalls, eoExit>>
seqVars == <<seqPc, seqInput, seqText, seqEvaluation, seqCalls>>
rtVars  == <<rtPc, rtQuery, rtClassification, rtCalls>>
parVars == <<parPc, parBranch, parAll, parCalls>>
owVars  == <<owPc, owPlan, owTask, owAll, owCalls>>
tuVars  == <<tuPc, tuCeiling, tuStep, tuPending, tuHistory, tuEnd, tuCalls>>
ctlVars == <<ctlPc, resLog, resStatus, resBody, finalObject>>
exVars  == <<exPc, exInput, exMaxRetries, attempt, delayMs, lastError, exCalls, exDelays,
             exResult, exThrown>>
djVars  == <<fullText, messages, isLoading, parsedData, parseError, emitted>>
smVars  == <<smLog>>
caVars  == <<cache, now, caCalls, genLog>>
agVars  == <<agInput, agIsLoading, agValidationError, agSubmits>>
sdVars  == <<sdResult, sdSteps>>
dbVars  == <<dbInput, dbDebounced, dbTimer, dbSubmits>>
utilVars == <<smVars, caVars, agVars, sdVars, dbVars>>
vars    == <<eoVars, seqVars, rtVars, parVars, owVars, tuVars, ctlVars, exVars, djVars,
             aborted, utilVars>>

(***************************************************************************)
(* Bounds of the model.                                                    *)
(***************************************************************************)
MaxIterBound == 3       \* maxIterations ranges over 1..MaxIterBound
MaxTasks == 2           \* a plan has at most MaxTasks tasks
MaxRequests == 2        \* requests submitted to the defensive JSON component
MaxSteps == 2           \* the step ceiling of a tool-use stream ranges over 1..MaxSteps
MaxRetriesBound == 2    \* maxRetries of withRetry ranges over 0..MaxRetriesBound
MaxSelections == 3      \* model selections in a run
MaxCalls == 2           \* calls of generateWithCache in a run
MaxTicks == 3           \* half TTLs that pass in a run
MaxSubmits == 2         \* submits a component issues in a run

Last(s) == s[Len(s)]

(***************************************************************************)
(* Scores, in tenths.  The evaluation schemas declare                      *)
(* score: z.number().min(1).max(10); generateObject rejects (throws on) an *)
(* object that does not satisfy its schema.                                *)
(***************************************************************************)
MinScore == 10
MaxScore == 100
ScoreInSchema(s) == s >= MinScore /\ s <= MaxScore

\* what a model may answer for a score: below range, boundaries, around the
\* thresholds 7 and 8.5, above range
ModelScores == {5, 10, 50, 69, 70, 84, 85, 90, 100, 105}

(***************************************************************************)
(* Evaluator-Optimizer: EvaluatorOptimizerService.optimizeTranslation      *)
(***************************************************************************)
targetScore == 85

Translations == {"tA", "tB"}

EOCall(fn, context, n, translation, its) ==
    [fn |-> fn, context |-> context, n |-> n, translation |-> translation, iterations |-> its]

\* the while guard
LoopGuard(it, maxIt) == it < maxIt

\* "Stop if target score reached or max iterations"
ShouldBreakOffByOne(score, it, maxIt) == score >= targetScore \/ it >= maxIt
ShouldBreakScoreOnly(score, it, maxIt) == score >= targetScore
ShouldBreakBudgetOnly(score, it, maxIt) == it >= maxIt - 1
ShouldBreak(score, it, maxIt) == score >= targetScore \/ it >= maxIt - 1

\* iterations.push({ iteration: iteration + 1, translation, evaluation })
IterationRecord(it, translation, score) ==
    [iteration |-> it + 1, translation |-> translation, evaluation |-> [score |-> score]]

EOIdle ==
    /\ eoPc = "idle"
    /\ maxIterations = 0
    /\ currentTranslation = ""
    /\ iteration = 0
    /\ iterations = << >>
    /\ eoCalls = << >>
    /\ eoExit = "none"

EOStart ==
    /\ eoPc = "initial"
    /\ maxIterations \in 1..MaxIterBound
    /\ currentTranslation = ""
    /\ iteration = 0
    /\ iterations = << >>
    /\ eoCalls = << >>
    /\ eoExit = "none"

\* const initialTranslation = await generateText(...); currentTranslation = ...;
\* then the first test of the while guard
InitialTranslation ==
    /\ eoPc = "initial"
    /\ eoCalls' = Append(eoCalls, EOCall("generateText", "InitialTranslation", 0, "", << >>))
    /\ \/ \E t \in Translations :
             /\ currentTranslation' = t
             /\ IF LoopGuard(iteration, maxIterations)
                   THEN eoPc' = "evaluate" /\ eoExit' = eoExit
                   ELSE eoPc' = "summary" /\ eoExit' = "guard"
       \/ /\ eoPc' = "thrown"      \* generateWithLogging rethrows
          /\ UNCHANGED <<currentTranslation, eoExit>>
    /\ UNCHANGED <<maxIterations, iteration, iterations>>

\* const evaluation = await generateObject(...); iterations.push(...);
\* if (score >= targetScore || iteration >= maxIterations - 1) break;
Evaluate ==
    /\ eoPc = "evaluate"
    /\ eoCalls' = Append(eoCalls,
                    EOCall("generateObject", "Evaluation", iteration + 1, currentTranslation, << >>))
    /\ \/ \E s \in ModelScores :
             IF ScoreInSchema(s)
                THEN /\ iterations' = Append(iterations,
                                         IterationRecord(iteration, currentTranslation, s))
                     /\ IF ShouldBreak(s, iteration, maxIterations)
                           THEN eoPc' = "summary" /\ eoExit' = "break"
                           ELSE eoPc' = "improve" /\ eoExit' = eoExit
                ELSE /\ eoPc' = "thrown"      \* the object does not satisfy the schema
                     /\ UNCHANGED <<iterations, eoExit>>
       \/ /\ eoPc' = "thrown"      \* provider failure
          /\ UNCHANGED <<iterations, eoExit>>
    /\ UNCHANGED <<maxIterations, currentTranslation, iteration>>

\* const improvedTranslation = await generateText(...);
\* currentTranslation = improvedTranslation.text; iteration++; then the while guard
Improve ==
    /\ eoPc = "improve"
    /\ eoCalls' = Append(eoCalls,
                    EOCall("generateText", "Improvement", iteration + 1, currentTranslation, << >>))
    /\ \/ \E t \in Translations :
             /\ currentTranslation' = t
             /\ iteration' = iteration + 1
             /\ IF LoopGuard(iteration + 1, maxIterations)
                   THEN eoPc' = "evaluate" /\ eoExit' = eoExit
                   ELSE eoPc' = "summary" /\ eoExit' = "guard"
       \/ /\ eoPc' = "thrown"
          /\ UNCHANGED <<currentTranslation, iteration, eoExit>>
    /\ UNCHANGED <<maxIterations, iterations>>

\* return streamObject({ ... prompt: `... Final Translation: ${currentTranslation}
\*                                      Iterations: ${JSON.stringify(iterations)} ...` })
StreamSummary ==
    /\ eoPc = "summary"
    /\ eoCalls' = Append(eoCalls,
                    EOCall("streamObject", "Summary", 0, currentTranslation, iterations))
    /\ eoPc' = "returned"
    /\ UNCHANGED <<maxIterations, currentTranslation, iteration, iterations, eoExit>>

EONext == InitialTranslation \/ Evaluate \/ Improve \/ StreamSummary

(***************************************************************************)
(* Sequential: SequentialProcessingService.generateMarketingCopy           *)
(***************************************************************************)
SeqThreshold == 70

SeqInputs == {"productA", "productB"}
Copies == {"copy1", "copy2"}

SeqCall(fn, context, model, promptKind, text, score) ==
    [fn |-> fn, context |-> context, model |-> model,
     promptKind |-> promptKind, text |-> text, score |-> score]

\* const shouldImprove = evaluation.object.score < 7;
shouldImproveInclusive(score) == score <= SeqThreshold
shouldImprove(score) == score < SeqThreshold

\* prompt: shouldImprove ? `Based on the evaluation feedback, improve ...` : `Package the original ...`
SeqPromptKind(score) == IF shouldImprove(score) THEN "improve" ELSE "package"

SeqIdle ==
    /\ seqPc = "idle"
    /\ seqInput = ""
    /\ seqText = ""
    /\ seqEvaluation = [score |-> 0]
    /\ seqCalls = << >>

SeqStart ==
    /\ seqPc = "generate"
    /\ seqInput \in SeqInputs
    /\ seqText = ""
    /\ seqEvaluation = [score |-> 0]
    /\ seqCalls = << >>

\* Step 1: const initialResult = await generateText({ model: complex, ... })
SeqGenerate ==
    /\ seqPc = "generate"
    /\ seqCalls' = Append(seqCalls,
                     SeqCall("generateText", "InitialGeneration", "complex", "create", seqInput, 0))
    /\ \/ \E t \in Copies : seqText' = t /\ seqPc' = "evaluate"
       \/ seqPc' = "thrown" /\ seqText' = seqText
    /\ UNCHANGED <<seqInput, seqEvaluation>>

\* Step 2: const evaluation = await generateObject({ model: fast, schema, ... })
SeqEvaluate ==
    /\ seqPc = "evaluate"
    /\ seqCalls' = Append(seqCalls,
                     SeqCall("generateObject", "QualityEvaluation", "fast", "evaluate", seqText, 0))
    /\ \/ \E s \in ModelScores :
             IF ScoreInSchema(s)
                THEN seqEvaluation' = [score |-> s] /\ seqPc' = "stream"
                ELSE seqEvaluation' = seqEvaluation /\ seqPc' = "thrown"
       \/ seqPc' = "thrown" /\ seqEvaluation' = seqEvaluation
    /\ UNCHANGED <<seqInput, seqText>>

\* Step 3: return streamObject({ model: complex, prompt: shouldImprove ? ... : ... })
SeqStream ==
    /\ seqPc = "stream"
    /\ seqCalls' = Append(seqCalls,
                     SeqCall("streamObject", "FinalResult", "complex",
                             SeqPromptKind(seqEvaluation.score), seqText, seqEvaluation.score))
    /\ seqPc' = "returned"
    /\ UNCHANGED <<seqInput, seqText, seqEvaluation>>

SeqNext == SeqGenerate \/ SeqEvaluate \/ SeqStream

(***************************************************************************)
(* Routing: RoutingService.handleCustomerQuery                             *)
(***************************************************************************)
Queries == {"q1", "q2"}

\* private readonly specialists = { technical, marketing, support }
specialists ==
    [technical |-> "senior software engineer",
     marketing |-> "marketing specialist",
     support   |-> "customer support specialist"]

DefaultSpecialist == "helpful assistant"

\* the enums of the classification schema
CategoryEnum == {"technical", "marketing", "support", "general"}
ComplexityEnum == {"simple", "moderate", "complex"}
UrgencyEnum == {"low", "medium", "high"}

\* what the classifier may answer; "billing" and "extreme" are outside the enums
ModelCategories == CategoryEnum \cup {"billing"}
ModelComplexities == ComplexityEnum \cup {"extreme"}

ClassificationInSchema(c) ==
    /\ c.category \in CategoryEnum
    /\ c.complexity \in ComplexityEnum
    /\ c.urgency \in UrgencyEnum

\* classification.object.complexity === 'complex' ? this.models.complex : this.models.fast
selectedModelNotSimple(complexity) == IF complexity # "simple" THEN "complex" ELSE "fast"
selectedModel(complexity) == IF complexity = "complex" THEN "complex" ELSE "fast"

\* this.specialists[classification.object.category] || 'You are a helpful assistant.'
specialist(category) ==
    IF category \in DOMAIN specialists THEN specialists[category] ELSE DefaultSpecialist

NoClassification == [category |-> "", complexity |-> "", urgency |-> ""]

RtCall(fn, context, model, spec, classification) ==
    [fn |-> fn, context |-> context, model |-> model,
     specialist |-> spec, classification |-> classification]

RtIdle ==
    /\ rtPc = "idle"
    /\ rtQuery = ""
    /\ rtClassification = NoClassification
    /\ rtCalls = << >>

RtStart ==
    /\ rtPc = "classify"
    /\ rtQuery \in Queries
    /\ rtClassification = NoClassification
    /\ rtCalls = << >>

\* Step 1: const classification = await generateObject({ model: fast, schema, ... })
RtClassify ==
    /\ rtPc = "classify"
    /\ rtCalls' = Append(rtCalls,
                    RtCall("generateObject", "QueryClassification", "fast", "", NoClassification))
    /\ \/ \E cat \in ModelCategories, cx \in ModelComplexities, u \in UrgencyEnum :
             LET c == [category |-> cat, complexity |-> cx, urgency |-> u] IN
             IF ClassificationInSchema(c)
                THEN rtClassification' = c /\ rtPc' = "stream"
                ELSE rtClassification' = rtClassification /\ rtPc' = "thrown"
       \/ rtPc' = "thrown" /\ rtClassification' = rtClassification
    /\ UNCHANGED rtQuery

\* Steps 2 and 3: select the model and the specialist, return streamObject(...)
RtStream ==
    /\ rtPc = "stream"
    /\ rtCalls' = Append(rtCalls,
                    RtCall("streamObject", "SpecializedResponse",
                           selectedModel(rtClassification.complexity),
                           specialist(rtClassification.category),
                           rtClassification))
    /\ rtPc' = "returned"
    /\ UNCHANGED <<rtQuery, rtClassification>>

RtNext == RtClassify \/ RtStream

(***************************************************************************)
(* Promise.all over an array of promises: rejects as soon as one element   *)
(* rejects, fulfils when every element is fulfilled, and delivers the      *)
(* values in the order of the array.  An empty array fulfils at once.      *)
(***************************************************************************)
PromiseAllSettledLike(prev, br) ==
    IF prev # "pending" THEN prev
    ELSE IF \A i \in DOMAIN br : br[i].state \in {"fulfilled", "rejected"} THEN "fulfilled"
    ELSE "pending"
PromiseAll(prev, br) ==
    IF prev # "pending" THEN prev
    ELSE IF \E i \in DOMAIN br : br[i].state = "rejected" THEN "rejected"
    ELSE IF \A i \in DOMAIN br : br[i].state = "fulfilled" THEN "fulfilled"
    ELSE "pending"

\* order: the rank of a branch among the settled ones (0 while it is pending)
Settled(br) == {i \in DOMAIN br : br[i].state \in {"fulfilled", "rejected"}}

PromiseAllValuesByCompletion(br) ==
    [k \in 1..Len(br) |-> br[CHOOSE i \in DOMAIN br : br[i].order = k].object]
PromiseAllValues(br) == [i \in 1..Len(br) |-> br[i].object]

NoObject == [producer |-> 0, score |-> 0]
PendingBranch == [state |-> "pending", object |-> NoObject, order |-> 0]
Fulfilled(br, i, s) ==
    [state |-> "fulfilled", object |-> [producer |-> i, score |-> s],
     order |-> Cardinality(Settled(br)) + 1]
Rejected(br) ==
    [state |-> "rejected", object |-> NoObject, order |-> Cardinality(Settled(br)) + 1]

FanCall(fn, context, n, results) ==
    [fn |-> fn, context |-> context, n |-> n, results |-> results]

(***************************************************************************)
(* Parallel: ParallelProcessingService.reviewCode                          *)
(***************************************************************************)
\* the array handed to Promise.all
Reviews == <<"SecurityReview", "PerformanceReview", "MaintainabilityReview">>

ParIdle ==
    /\ parPc = "idle"
    /\ parBranch = << >>
    /\ parAll = "none"
    /\ parCalls = << >>

ParStart ==
    /\ parPc = "fanout"
    /\ parBranch = << >>
    /\ parAll = "none"
    /\ parCalls = << >>

\* the three generateObject calls are issued one after the other, without
\* awaiting, and the function suspends on await Promise.all([...])
ParFanOut ==
    /\ parPc = "fanout"
    /\ parCalls' = parCalls \o [i \in 1..Len(Reviews) |->
                                  FanCall("generateObject", Reviews[i], i, << >>)]
    /\ parBranch' = [i \in 1..Len(Reviews) |-> PendingBranch]
    /\ parAll' = PromiseAll("pending", parBranch')
    /\ parPc' = "await"

\* one review call settles: generateObject resolves with an object of its
\* schema, or generateWithLogging rethrows its failure
ParBranchSettle(i) ==
    /\ i \in DOMAIN parBranch
    /\ parBranch[i].state = "pending"
    /\ \/ \E s \in {50, 90, 105} :
             parBranch' = [parBranch EXCEPT ![i] =
                 IF ScoreInSchema(s) THEN Fulfilled(parBranch, i, s) ELSE Rejected(parBranch)]
       \/ parBranch' = [parBranch EXCEPT ![i] = Rejected(parBranch)]
    /\ parAll' = PromiseAll(parAll, parBranch')
    /\ UNCHANGED <<parPc, parCalls>>

\* the await resumes: the destructured results go into the combined-analysis
\* streamObject call, or the rejection is thrown out of reviewCode
ParResume ==
    /\ parPc = "await"
    /\ parAll \in {"fulfilled", "rejected"}
    /\ IF parAll = "fulfilled"
          THEN /\ parCalls' = Append(parCalls,
                      FanCall("streamObject", "CombinedAnalysis", 0, PromiseAllValues(parBranch)))
               /\ parPc' = "returned"
          ELSE /\ parPc' = "thrown"
               /\ parCalls' = parCalls
    /\ UNCHANGED <<parBranch, parAll>>

ParNext == ParFanOut \/ (\E i \in 1..Len(Reviews) : ParBranchSettle(i)) \/ ParResume

(***************************************************************************)
(* Orchestrator-Worker: OrchestratorWorkerService.implementFeature         *)
(***************************************************************************)
TaskIds == 1..MaxTasks

\* a plan: tasks[i] = [id, dependencies]; the schema puts no constraint on
\* the dependencies beyond z.array(z.string())
Plans ==
    UNION { [1..n -> [id : TaskIds, dependencies : SUBSET TaskIds]] : n \in 0..MaxTasks }

\* plans whose task at position i carries the id i
WellNumbered(plan) == \A i \in DOMAIN plan : plan[i].id = i

NoPlan == << >>

\* a task: "timer" while its setTimeout(100 * (index + 1)) is pending,
\* "pending" once its generateObject call is in flight
TimerBranch == [state |-> "timer", object |-> NoObject, order |-> 0]

OwIdle ==
    /\ owPc = "idle"
    /\ owPlan = NoPlan
    /\ owTask = << >>
    /\ owAll = "none"
    /\ owCalls = << >>

OwStart ==
    /\ owPc = "plan"
    /\ owPlan = NoPlan
    /\ owTask = << >>
    /\ owAll = "none"
    /\ owCalls = << >>

\* Step 1: const plan = await generateObject(...); then tasks.map(async ...)
\* runs every callback up to its timer and the function suspends on Promise.all
OwPlan ==
    /\ owPc = "plan"
    /\ owCalls' = Append(owCalls, FanCall("generateObject", "FeaturePlanning", 0, << >>))
    /\ \/ \E plan \in Plans :
             /\ WellNumbered(plan)
             /\ owPlan' = plan
             /\ owTask' = [i \in 1..Len(plan) |-> TimerBranch]
             /\ owAll' = PromiseAll("pending", owTask')
             /\ owPc' = "await"
       \/ /\ owPc' = "thrown"
          /\ UNCHANGED <<owPlan, owTask, owAll>>

\* the timer of task i fires (timers fire in the order of their delays,
\* 100 * (index + 1)) and its generateObject call is issued
OwTaskStart(i) ==
    /\ i \in DOMAIN owTask
    /\ owTask[i].state = "timer"
    /\ \A j \in 1..(i - 1) : owTask[j].state # "timer"
    /\ owTask' = [owTask EXCEPT ![i] = PendingBranch]
    /\ owCalls' = Append(owCalls, FanCall("generateObject", "TaskExecution", i, << >>))
    /\ UNCHANGED <<owPc, owPlan, owAll>>

\* the generateObject call of task i settles
OwTaskSettle(i) ==
    /\ i \in DOMAIN owTask
    /\ owTask[i].state = "pending"
    /\ \/ \E st \in {50, 90} :
             owTask' = [owTask EXCEPT ![i] = Fulfilled(owTask, i, st)]
       \/ owTask' = [owTask EXCEPT ![i] = Rejected(owTask)]
    /\ owAll' = PromiseAll(owAll, owTask')
    /\ UNCHANGED <<owPc, owPlan, owCalls>>

\* Step 3: the await resumes and the orchestration summary is streamed
OwResume ==
    /\ owPc = "await"
    /\ owAll \in {"fulfilled", "rejected"}
    /\ IF owAll = "fulfilled"
          THEN /\ owCalls' = Append(owCalls,
                      FanCall("streamObject", "OrchestrationSummary", 0, PromiseAllValues(owTask)))
               /\ owPc' = "returned"
          ELSE /\ owPc' = "thrown"
               /\ owCalls' = owCalls
    /\ UNCHANGED <<owPlan, owTask, owAll>>

OwNext ==
    \/ OwPlan
    \/ \E i \in TaskIds : OwTaskStart(i)
    \/ \E i \in TaskIds : OwTaskSettle(i)
    \/ OwResume

(***************************************************************************)
(* Multi-Step Tool Usage: MultiStepToolUsageService.solveMathProblem.      *)
(* The service issues one streamObject call that carries the tools; the    *)
(* generation steps are taken by the SDK, which calls the execute          *)
(* callbacks of the requested tools.  The service passes no step ceiling   *)
(* and its output schema has no field for a step-limit marker.             *)
(***************************************************************************)
Expressions == {"2+2", "3*4", "2+", "x", ""}

\* evaluate of mathjs on the expressions of the model
evaluate(expression) ==
    CASE expression = "2+2" -> [kind |-> "value", value |-> 4, message |-> ""]
      [] expression = "3*4" -> [kind |-> "value", value |-> 12, message |-> ""]
      [] expression = "2+"  -> [kind |-> "throw", value |-> 0,
                                message |-> "Unexpected end of expression (char 3)"]
      [] expression = "x"   -> [kind |-> "throw", value |-> 0,
                                message |-> "Undefined symbol x"]
      [] OTHER              -> [kind |-> "undefined", value |-> 0, message |-> ""]

\* result.toString() of a natural number, as a sequence of characters
RECURSIVE toString(_)
toString(n) ==
    LET DigitChars == <<"0", "1", "2", "3", "4", "5", "6", "7", "8", "9">> IN
    IF n < 10 THEN <<DigitChars[n + 1]>>
    ELSE toString(n \div 10) \o <<DigitChars[(n % 10) + 1]>>

\* undefined.toString()
TypeErrorMessage == "Cannot read properties of undefined (reading 'toString')"

\* what an execute callback hands back: the keys of the returned object and
\* their values (thrown: the callback threw instead)
SuccessPayload(result, expression) ==
    [thrown |-> FALSE, keys |-> {"result", "expression", "success"}, success |-> TRUE,
     result |-> result, error |-> "", expression |-> expression]

ErrorPayload(message, expression) ==
    [thrown |-> FALSE, keys |-> {"error", "expression", "success"}, success |-> FALSE,
     result |-> << >>, error |-> message, expression |-> expression]

\* execute of the calculate tool: evaluate and result.toString() are both
\* inside the try, the catch returns the error payload
calculateUnguarded(expression) ==
    LET r == evaluate(expression) IN
    IF r.kind = "value" THEN SuccessPayload(toString(r.value), expression)
    ELSE IF r.kind = "undefined"
       THEN [ErrorPayload(TypeErrorMessage, expression) EXCEPT !.thrown = TRUE]
    ELSE ErrorPayload(r.message, expression)
calculate(expression) ==
    LET r == evaluate(expression) IN
    IF r.kind = "value" THEN SuccessPayload(toString(r.value), expression)
    ELSE IF r.kind = "undefined" THEN ErrorPayload(TypeErrorMessage, expression)
    ELSE ErrorPayload(r.message, expression)

\* execute of the validateAnswer tool: a fixed answer { isValid: true,
\* confidence, method }
validateAnswer(method) ==
    [thrown |-> FALSE, keys |-> {"isValid", "confidence", "method"}, success |-> TRUE,
     result |-> << >>, error |-> "", expression |-> method]

\* the tool calls one generation step may request: one call, or a
\* calculation followed by the validation
StepRequests ==
    LET validation == [tool |-> "validateAnswer", arg |-> "substitution"] IN
    {<<[tool |-> "calculate", arg |-> e]>> : e \in Expressions}
      \cup {<<validation>>}
      \cup {<<[tool |-> "calculate", arg |-> e], validation>> : e \in Expressions}

Dispatch(request) ==
    [tool |-> request.tool,
     output |-> IF request.tool = "calculate" THEN calculate(request.arg)
                ELSE validateAnswer(request.arg)]

TuIdle ==
    /\ tuPc = "idle"
    /\ tuCeiling = 0
    /\ tuStep = 0
    /\ tuPending = << >>
    /\ tuHistory = << >>
    /\ tuEnd = "none"
    /\ tuCalls = << >>

TuStart ==
    /\ tuPc = "call"
    /\ tuCeiling \in 1..MaxSteps
    /\ tuStep = 0
    /\ tuPending = << >>
    /\ tuHistory = << >>
    /\ tuEnd = "none"
    /\ tuCalls = << >>

\* return streamObject({ model: complex, schema, tools: { calculate, validateAnswer }, prompt })
TuStreamObject ==
    /\ tuPc = "call"
    /\ tuCalls' = Append(tuCalls, [fn |-> "streamObject", context |-> "MathSolution",
                                    model |-> "complex",
                                    tools |-> {"calculate", "validateAnswer"}])
    /\ tuPc' = "returned"
    /\ UNCHANGED <<tuCeiling, tuStep, tuPending, tuHistory, tuEnd>>

\* a generation step of the stream: the model gives its final answer or
\* requests tool calls
TuGenerate ==
    /\ tuPc = "returned"
    /\ tuEnd = "none"
    /\ tuPending = << >>
    /\ tuStep < tuCeiling
    /\ tuStep' = tuStep + 1
    /\ \/ tuEnd' = "final" /\ tuPending' = tuPending
       \/ \E requests \in StepRequests : tuPending' = requests /\ tuEnd' = tuEnd
    /\ UNCHANGED <<tuPc, tuCeiling, tuHistory, tuCalls>>

\* the first pending tool call is executed and its result is appended to the
\* history; when the last call of the last step is done the stream ends,
\* and nothing in the service marks that the steps ran out
TuDispatch ==
    /\ tuPc = "returned"
    /\ tuEnd = "none"
    /\ tuPending # << >>
    /\ LET r == Dispatch(Head(tuPending)) IN
       /\ tuHistory' = Append(tuHistory, r)
       /\ tuPending' = Tail(tuPending)
       /\ tuEnd' = IF r.output.thrown THEN "thrown"
                   ELSE IF Tail(tuPending) = << >> /\ tuStep = tuCeiling THEN "truncated"
                   ELSE "none"
    /\ UNCHANGED <<tuPc, tuCeiling, tuStep, tuCalls>>

TuNext == TuStreamObject \/ TuGenerate \/ TuDispatch

(***************************************************************************)
(* PatternController.handleRequest around the pattern service, the         *)
(* AIExceptionFilter, and the stream that is piped to the response.  The   *)
(* output schemas of the summary calls declare their scores as z.number()  *)
(* with no range.                                                          *)
(***************************************************************************)
ServicePcs == <<eoPc, seqPc, rtPc, parPc, owPc, tuPc>>
ServiceRunning == \E i \in DOMAIN ServicePcs : ServicePcs[i] # "idle"
ServiceReturned == \E i \in DOMAIN ServicePcs : ServicePcs[i] = "returned"
ServiceThrown == \E i \in DOMAIN ServicePcs : ServicePcs[i] = "thrown"

\* the services whose final object carries evaluation scores
ScoredService == eoPc = "returned" \/ seqPc = "returned"

\* finalScore: z.number(), evaluation.score: z.number()
OutputScoreInSchema(s) == s \in Int

\* scores the summarising model may write into the final object
StreamedScores == {5, 90, 105}

NoFinalObject == [carriesScore |-> FALSE, score |-> 0]

ResBody(kind, complete, error, timestamp) ==
    [kind |-> kind, complete |-> complete, error |-> error, timestamp |-> timestamp]
NoBody == ResBody("none", FALSE, "", FALSE)

Unavailable == "AI service temporarily unavailable"

CtlIdle ==
    /\ ctlPc = "idle"
    /\ resLog = << >>
    /\ resStatus = 0
    /\ resBody = NoBody
    /\ finalObject = NoFinalObject

\* const result = await this.service.processRequest(body) is pending
CtlStart ==
    /\ ctlPc = "await"
    /\ resLog = << >>
    /\ resStatus = 0
    /\ resBody = NoBody
    /\ finalObject = NoFinalObject

\* the await resumes with the stream: three setHeader calls, then
\* result.pipeTextStreamToResponse(res), which starts the response
CtlHandleRequest ==
    /\ ctlPc = "await"
    /\ ServiceReturned
    /\ resLog' = resLog \o <<[op |-> "setHeader", arg |-> "Content-Type"],
                             [op |-> "setHeader", arg |-> "Cache-Control"],
                             [op |-> "setHeader", arg |-> "Connection"],
                             [op |-> "pipeTextStreamToResponse", arg |-> ""]>>
    /\ resStatus' = 200
    /\ ctlPc' = "piping"
    /\ UNCHANGED <<resBody, finalObject>>

\* the await throws, handleRequest rejects and the exception filter answers:
\* response.status(500).json({ error, timestamp: new Date().toISOString() })
CtlExceptionFilter ==
    /\ ctlPc = "await"
    /\ ServiceThrown
    /\ resLog' = resLog \o <<[op |-> "status", arg |-> "500"], [op |-> "json", arg |-> Unavailable]>>
    /\ resStatus' = 500
    /\ resBody' = ResBody("json", TRUE, Unavailable, TRUE)
    /\ ctlPc' = "closed"
    /\ UNCHANGED finalObject

\* the stream delivers its final object, which satisfies the output schema,
\* and the response ends
CtlStreamComplete ==
    /\ ctlPc = "piping"
    /\ tuPc = "returned" => tuEnd # "none"
    /\ \E s \in (IF ScoredService THEN StreamedScores ELSE {0}) :
          /\ OutputScoreInSchema(s)
          /\ finalObject' = [carriesScore |-> ScoredService, score |-> s]
    /\ resBody' = ResBody("stream", TRUE, "", FALSE)
    /\ resLog' = Append(resLog, [op |-> "end", arg |-> ""])
    /\ ctlPc' = "closed"
    /\ UNCHANGED resStatus

\* the stream fails after the response has started: handleRequest has
\* returned, status and headers are sent, no filter runs; the body just
\* breaks off, and the connection is ended or stays open
CtlStreamFail ==
    /\ ctlPc = "piping"
    /\ resBody' = ResBody("stream", FALSE, "", FALSE)
    /\ \/ ctlPc' = "closed" /\ resLog' = Append(resLog, [op |-> "end", arg |-> ""])
       \/ ctlPc' = "hung" /\ resLog' = resLog
    /\ UNCHANGED <<resStatus, finalObject>>

CtlNext == CtlHandleRequest \/ CtlExceptionFilter \/ CtlStreamComplete \/ CtlStreamFail

(***************************************************************************)
(* BaseAIService.validateInput and withRetry, as ExampleAIService uses     *)
(* them in processExample.  An input is described by its length, the       *)
(* length of input.trim() and whether one of the suspicious patterns       *)
(* matches it.                                                             *)
(***************************************************************************)
DefaultMaxLength == 10000
DefaultMaxRetries == 2
DefaultDelayMs == 1000

ExInputs ==
    LET Lengths == {0, 3, DefaultMaxLength, DefaultMaxLength + 1} IN
    {input \in [length : Lengths, trimmed : Lengths, suspicious : BOOLEAN] :
        /\ input.trimmed <= input.length
        /\ input.suspicious => input.trimmed > 0}

NoInput == [length |-> 0, trimmed |-> 0, suspicious |-> FALSE]

Accepted == "accepted"
EmptyMessage == "Input cannot be empty"
TooLongMessage == "Input too long. Maximum characters allowed."

\* validateInput(input, maxLength): what it throws, or Accepted; a
\* suspicious pattern only writes a warning
validateInputRejectsSuspicious(input, maxLength) ==
    IF input.length = 0 \/ input.trimmed = 0 THEN EmptyMessage
    ELSE IF input.length > maxLength THEN TooLongMessage
    ELSE IF input.suspicious THEN EmptyMessage
    ELSE Accepted
validateInput(input, maxLength) ==
    IF input.length = 0 \/ input.trimmed = 0 THEN EmptyMessage
    ELSE IF input.length > maxLength THEN TooLongMessage
    ELSE Accepted

\* an invocation of the operation returns the stream or throws one of these
ErrorKinds == {"ProviderTimeout", "ProviderRateLimited", "ProviderMalformedResponse"}

ExError(kind, n, message) == [kind |-> kind, attempt |-> n, message |-> message]
NoException == ExError("none", 0, "")

\* for (let attempt = 0; attempt <= maxRetries; attempt++)
RetryLoopGuardOneMore(n, maxRetries) == n <= maxRetries + 1
RetryLoopGuard(n, maxRetries) == n <= maxRetries

\* if (attempt < maxRetries): wait and double the delay
ShouldDelayAlways(n, maxRetries) == TRUE
ShouldDelay(n, maxRetries) == n < maxRetries

ExIdle ==
    /\ exPc = "idle"
    /\ exInput = NoInput
    /\ exMaxRetries = 0
    /\ attempt = 0
    /\ delayMs = 0
    /\ lastError = NoException
    /\ exCalls = << >>
    /\ exDelays = << >>
    /\ exResult = 0
    /\ exThrown = NoException

ExStart ==
    /\ exPc = "validate"
    /\ exInput \in ExInputs
    /\ exMaxRetries \in 0..MaxRetriesBound
    /\ attempt = 0
    /\ delayMs = 0
    /\ lastError = NoException
    /\ exCalls = << >>
    /\ exDelays = << >>
    /\ exResult = 0
    /\ exThrown = NoException

\* this.validateInput(input); then the schema and the prompt are built and
\* withRetry is entered with attempt = 0 and delayMs = 1000
ExValidate ==
    /\ exPc = "validate"
    /\ LET v == validateInput(exInput, DefaultMaxLength) IN
       IF v = Accepted
          THEN /\ exPc' = "attempt"
               /\ delayMs' = DefaultDelayMs
               /\ exThrown' = exThrown
          ELSE /\ exPc' = "thrown"
               /\ delayMs' = delayMs
               /\ exThrown' = ExError("InputValidation", 0, v)
    /\ UNCHANGED <<exInput, exMaxRetries, attempt, lastError, exCalls, exDelays, exResult>>

\* one pass of the loop: try { return await operation() } catch (error)
\* { lastError = error; if (attempt < maxRetries) wait }; when the guard
\* fails after the pass, throw lastError.  generateWithLogging logs and
\* rethrows what streamObject throws.
ExAttempt ==
    /\ exPc = "attempt"
    /\ RetryLoopGuard(attempt, exMaxRetries)
    /\ \E outcome \in {"stream"} \cup ErrorKinds :
          /\ exCalls' = Append(exCalls, [attempt |-> attempt, outcome |-> outcome])
          /\ IF outcome = "stream"
                THEN /\ exPc' = "returned"
                     /\ exResult' = Len(exCalls')
                     /\ UNCHANGED <<attempt, lastError, exThrown>>
                ELSE LET error == ExError(outcome, attempt, "") IN
                     /\ lastError' = error
                     /\ exResult' = exResult
                     /\ IF ShouldDelay(attempt, exMaxRetries)
                           THEN exPc' = "delay" /\ UNCHANGED <<attempt, exThrown>>
                           ELSE /\ attempt' = attempt + 1
                                /\ IF RetryLoopGuard(attempt + 1, exMaxRetries)
                                      THEN exPc' = "attempt" /\ exThrown' = exThrown
                                      ELSE exPc' = "thrown" /\ exThrown' = error
    /\ UNCHANGED <<exInput, exMaxRetries, delayMs, exDelays>>

\* the timer of setTimeout(resolve, delayMs) fires: delayMs *= 2, attempt++
ExDelayElapsed ==
    /\ exPc = "delay"
    /\ exDelays' = Append(exDelays, delayMs)
    /\ delayMs' = delayMs * 2
    /\ attempt' = attempt + 1
    /\ IF RetryLoopGuard(attempt + 1, exMaxRetries)
          THEN exPc' = "attempt" /\ exThrown' = exThrown
          ELSE exPc' = "thrown" /\ exThrown' = lastError
    /\ UNCHANGED <<exInput, exMaxRetries, lastError, exCalls, exResult>>

ExNext == ExValidate \/ ExAttempt \/ ExDelayElapsed

(***************************************************************************)
(* JSON.parse, on texts given as sequences of one-character strings.       *)
(* A value is a node [t, s, k, a]: t its type, s the characters of a       *)
(* string or number, k the key under which it is a member of an object,    *)
(* a its elements (array) or members (object).  The texts of the model     *)
(* hold no backslash, fraction or exponent, so the parser has no case for  *)
(* them.                                                                   *)
(***************************************************************************)
Node(t, str, k, a) == [t |-> t, s |-> str, k |-> k, a |-> a]
NullNode == Node("null", << >>, << >>, << >>)

Digits == {"0", "1", "2", "3", "4", "5", "6", "7", "8", "9"}

ParseFail == [ok |-> FALSE, pos |-> 0, node |-> NullNode]
ParseOk(node, pos) == [ok |-> TRUE, pos |-> pos, node |-> node]

\* first position at or after p that holds no white space (Len + 1 at the end)
SkipWs(txt, p) ==
    CHOOSE q \in p..(Len(txt) + 1) :
        /\ \A j \in p..(q - 1) : txt[j] = " "
        /\ q = Len(txt) + 1 \/ txt[q] # " "

CharAt(txt, p) == IF p \in 1..Len(txt) THEN txt[p] ELSE "EOF"

\* a string starts at p (txt[p] is the opening quote)
ParseString(txt, p) ==
    IF \E q \in (p + 1)..Len(txt) : txt[q] = "\""
       THEN LET q == CHOOSE q \in (p + 1)..Len(txt) :
                        /\ txt[q] = "\""
                        /\ \A j \in (p + 1)..(q - 1) : txt[j] # "\""
            IN  ParseOk(Node("str", SubSeq(txt, p + 1, q - 1), << >>, << >>), q + 1)
       ELSE ParseFail

\* a number starts at p: -? (0 | [1-9][0-9]*)
ParseNumber(txt, p) ==
    LET d == IF CharAt(txt, p) = "-" THEN p + 1 ELSE p
        e == CHOOSE q \in d..(Len(txt) + 1) :
                 /\ \A j \in d..(q - 1) : txt[j] \in Digits
                 /\ q = Len(txt) + 1 \/ txt[q] \notin Digits
    IN  IF e = d THEN ParseFail
        ELSE IF txt[d] = "0" /\ e > d + 1 THEN ParseOk(Node("num", SubSeq(txt, p, d), << >>, << >>), d + 1)
        ELSE ParseOk(Node("num", SubSeq(txt, p, e - 1), << >>, << >>), e)

\* one of the literals true, false, null starts at p
ParseLiteral(txt, p, lit, t) ==
    IF p + Len(lit) - 1 <= Len(txt) /\ SubSeq(txt, p, p + Len(lit) - 1) = lit
       THEN ParseOk(Node(t, lit, << >>, << >>), p + Len(lit))
       ELSE ParseFail

RECURSIVE ParseValue(_, _)
RECURSIVE ParseMembers(_, _, _)
RECURSIVE ParseElements(_, _, _)

\* members of an object from p on (p is at the quote of a key); acc holds
\* the members read so far
ParseMembers(txt, p, acc) ==
    IF CharAt(txt, p) # "\"" THEN ParseFail
    ELSE LET key == ParseString(txt, p) IN
         IF ~key.ok THEN ParseFail
         ELSE LET c == SkipWs(txt, key.pos) IN
              IF CharAt(txt, c) # ":" THEN ParseFail
              ELSE LET v == ParseValue(txt, c + 1) IN
                   IF ~v.ok THEN ParseFail
                   ELSE LET n    == SkipWs(txt, v.pos)
                            acc2 == Append(acc, [v.node EXCEPT !.k = key.node.s])
                        IN  IF CharAt(txt, n) = "}" THEN ParseOk(Node("obj", << >>, << >>, acc2), n + 1)
                            ELSE IF CharAt(txt, n) = "," THEN ParseMembers(txt, SkipWs(txt, n + 1), acc2)
                            ELSE ParseFail

\* elements of an array from p on
ParseElements(txt, p, acc) ==
    LET v == ParseValue(txt, p) IN
    IF ~v.ok THEN ParseFail
    ELSE LET n    == SkipWs(txt, v.pos)
             acc2 == Append(acc, v.node)
         IN  IF CharAt(txt, n) = "]" THEN ParseOk(Node("arr", << >>, << >>, acc2), n + 1)
             ELSE IF CharAt(txt, n) = "," THEN ParseElements(txt, n + 1, acc2)
             ELSE ParseFail

ParseValue(txt, p0) ==
    LET p == SkipWs(txt, p0)
        c == CharAt(txt, p)
    IN  IF c = "{" THEN
            LET q == SkipWs(txt, p + 1) IN
            IF CharAt(txt, q) = "}" THEN ParseOk(Node("obj", << >>, << >>, << >>), q + 1)
            ELSE ParseMembers(txt, q, << >>)
        ELSE IF c = "[" THEN
            LET q == SkipWs(txt, p + 1) IN
            IF CharAt(txt, q) = "]" THEN ParseOk(Node("arr", << >>, << >>, << >>), q + 1)
            ELSE ParseElements(txt, q, << >>)
        ELSE IF c = "\"" THEN ParseString(txt, p)
        ELSE IF c = "-" \/ c \in Digits THEN ParseNumber(txt, p)
        ELSE IF c = "t" THEN ParseLiteral(txt, p, <<"t", "r", "u", "e">>, "bool")
        ELSE IF c = "f" THEN ParseLiteral(txt, p, <<"f", "a", "l", "s", "e">>, "bool")
        ELSE IF c = "n" THEN ParseLiteral(txt, p, <<"n", "u", "l", "l">>, "null")
        ELSE ParseFail

\* JSON.parse(text): the whole text must be one value; a failure is the
\* SyntaxError that JSON.parse throws
JSONParse(txt) ==
    LET r == ParseValue(txt, 1) IN
    IF r.ok /\ SkipWs(txt, r.pos) = Len(txt) + 1 THEN r ELSE ParseFail

(***************************************************************************)
(* ResponseSchema (zod): an object whose keys title, content, items and    *)
(* status are all optional; safeParse strips the keys it does not know.    *)
(***************************************************************************)
Absent == Node("absent", << >>, << >>, << >>)

KeyTitle   == <<"t", "i", "t", "l", "e">>
KeyContent == <<"c", "o", "n", "t", "e", "n", "t">>
KeyItems   == <<"i", "t", "e", "m", "s">>
KeyStatus  == <<"s", "t", "a", "t", "u", "s">>

StatusEnum == { <<"p", "r", "o", "c", "e", "s", "s", "i", "n", "g">>,
                <<"c", "o", "m", "p", "l", "e", "t", "e">> }

\* parsed[key]: the last member with that key, undefined when there is none
Field(obj, key) ==
    LET idx == {i \in 1..Len(obj.a) : obj.a[i].k = key} IN
    IF idx = {} THEN Absent
    ELSE [obj.a[CHOOSE i \in idx : \A j \in idx : j <= i] EXCEPT !.k = << >>]

IsString(n) == n.t = "str"
IsStringArray(n) == n.t = "arr" /\ \A i \in 1..Len(n.a) : n.a[i].t = "str"
IsStatus(n) == n.t = "str" /\ n.s \in StatusEnum
Optional(n, ok) == n.t = "absent" \/ ok

\* useState<ResponseType>({})
EmptyData == [title |-> Absent, content |-> Absent, items |-> Absent, status |-> Absent]

safeParse(parsed) ==
    IF parsed.t # "obj" THEN [success |-> FALSE, data |-> EmptyData]
    ELSE LET d == [title   |-> Field(parsed, KeyTitle),
                   content |-> Field(parsed, KeyContent),
                   items   |-> Field(parsed, KeyItems),
                   status  |-> Field(parsed, KeyStatus)]
         IN  IF /\ Optional(d.title, IsString(d.title))
                /\ Optional(d.content, IsString(d.content))
                /\ Optional(d.items, IsStringArray(d.items))
                /\ Optional(d.status, IsStatus(d.status))
                THEN [success |-> TRUE, data |-> d]
                ELSE [success |-> FALSE, data |-> EmptyData]

(***************************************************************************)
(* DefensiveJsonComponent: the messages of useChat, its isLoading flag and *)
(* the two effects of the component.                                       *)
(***************************************************************************)
\* the texts a response may consist of: complete documents, with and without
\* trailing white space, documents that fail the schema, and truncated ones
TitlePrefix == <<"{", "\"", "t", "i", "t">>
TitleThenJunk == <<"{", "\"", "t", "i", "t", "l", "e", "\"", ":", "\"", "A", "\"", "}", "x">>
TitleHi == <<"{", "\"", "t", "i", "t", "l", "e", "\"", ":", "\"", "H", "i", "\"", "}">>
TitleHiSpace == <<"{", "\"", "t", "i", "t", "l", "e", "\"", ":", "\"", "H", "i", "\"", "}", " ">>
Truncated == <<"{", "\"", "t", "i", "t", "l", "e", "\"", ":", "\"", "H", "i", "\"">>
TitleNumber == <<"{", "\"", "t", "i", "t", "l", "e", "\"", ":", "7", "}">>
ItemsText == <<"{", "\"", "i", "t", "e", "m", "s", "\"", ":", "[", "\"", "a", "\"", "]", "}">>
UnknownKey == <<"{", "\"", "x", "\"", ":", "1", ",", "\"", "t", "i", "t", "l", "e", "\"", ":", "\"", "A", "\"", "}">>
TopNumber == <<"1", "2">>
NullText == <<"n", "u", "l", "l">>
StatusDone == <<"{", "\"", "s", "t", "a", "t", "u", "s", "\"", ":", "\"", "n", "o", "\"", "}">>
ResponseTexts == {TitlePrefix, TitleThenJunk, TitleHi, TitleHiSpace, Truncated, TitleNumber, ItemsText, UnknownKey, TopNumber, NullText, StatusDone, << >>}

NoError == "null"
InvalidJson == "Invalid JSON structure"

RECURSIVE Join(_)
Join(ss) == IF ss = << >> THEN << >> ELSE Head(ss) \o Join(Tail(ss))

SelectParts(parts, type) == SelectSeq(parts, LAMBDA part : part.type = type)

\* lastMessage.content.filter(part => part.type === 'text').map(part => part.text).join('')
textContentFirstPart(msg) == msg.content[1].text
textContent(msg) ==
    LET tp == SelectParts(msg.content, "text") IN Join([i \in 1..Len(tp) |-> tp[i].text])

UserMessage == [role |-> "user", content |-> <<[type |-> "text", text |-> <<"?">>]>>]
AssistantMessage(txt) ==
    [role |-> "assistant",
     content |-> <<[type |-> "step-start", text |-> << >>], [type |-> "text", text |-> txt]>>]

\* the state the two effects write: parsedData, parseError, and the values
\* handed to setParsedData by the parsing effect since the last submit
DjState(pd, pe, em) == [parsedData |-> pd, parseError |-> pe, emitted |-> em]

\* the catch branch: "Expected error during streaming - only show if not loading"
CatchBranchAlways(loading, st) == [st EXCEPT !.parseError = InvalidJson]
CatchBranch(loading, st) == IF ~loading THEN [st EXCEPT !.parseError = InvalidJson] ELSE st

\* useEffect(() => { ... }, [messages, isLoading]): defensive JSON parsing
ParseEffect(msgs, loading, st) ==
    IF msgs = << >> \/ Last(msgs).role # "assistant" THEN st
    ELSE LET parsed == JSONParse(textContent(Last(msgs))) IN
         IF ~parsed.ok THEN CatchBranch(loading, st)
         ELSE LET validation == safeParse(parsed.node) IN
              IF validation.success
                 THEN DjState(validation.data, NoError, Append(st.emitted, validation.data))
                 ELSE st          \* console.warn only

\* {parseError && !isLoading && (...)}: the error line of the status indicators
ErrorShown(pe, loading) == pe # NoError /\ ~loading

\* useEffect(() => { if (isLoading) { setParsedData({}); setParseError(null) } }, [isLoading])
ResetEffectNever(loading, st) == st
ResetEffect(loading, st) ==
    IF loading THEN [st EXCEPT !.parsedData = EmptyData, !.parseError = NoError] ELSE st

\* the characters of the current response received so far (the text part of
\* the assistant message)
ReceivedText(msgs) ==
    IF msgs # << >> /\ Last(msgs).role = "assistant" THEN Last(msgs).content[2].text ELSE << >>

Received == Len(ReceivedText(messages))

Requests == Len(SelectSeq(messages, LAMBDA m : m.role = "user"))

Commit(st) ==
    /\ parsedData' = st.parsedData
    /\ parseError' = st.parseError
    /\ emitted' = st.emitted

DjStart ==
    /\ fullText = << >>
    /\ messages = << >>
    /\ isLoading = FALSE
    /\ parsedData = EmptyData
    /\ parseError = NoError
    /\ emitted = << >>

\* handleSubmit of useChat: the user message is appended and the request
\* starts; both effects run, the parsing effect first
DjSubmit ==
    /\ ~isLoading
    /\ Requests < MaxRequests
    /\ \E t \in ResponseTexts : fullText' = t
    /\ messages' = Append(messages, UserMessage)
    /\ isLoading' = TRUE
    /\ Commit(ResetEffect(TRUE,
                ParseEffect(messages', TRUE, DjState(parsedData, parseError, << >>))))

\* a chunk of k characters of the response arrives; messages changes, so
\* the parsing effect runs
DjChunk(k) ==
    /\ isLoading
    /\ Received + k <= Len(fullText)
    /\ messages' =
          IF Last(messages).role = "assistant"
             THEN [messages EXCEPT ![Len(messages)] =
                      AssistantMessage(SubSeq(fullText, 1, Received + k))]
             ELSE Append(messages, AssistantMessage(SubSeq(fullText, 1, k)))
    /\ Commit(ParseEffect(messages', TRUE, DjState(parsedData, parseError, emitted)))
    /\ UNCHANGED <<fullText, isLoading>>

\* the response ends (a response that breaks off is one whose text is
\* truncated): isLoading becomes false, so both effects run
DjFinish ==
    /\ isLoading
    /\ Received = Len(fullText)
    /\ isLoading' = FALSE
    /\ Commit(ResetEffect(FALSE,
                ParseEffect(messages, FALSE, DjState(parsedData, parseError, emitted))))
    /\ UNCHANGED <<fullText, messages>>

DjNext == DjSubmit \/ (\E k \in 1..Len(fullText) : DjChunk(k)) \/ DjFinish

(***************************************************************************)
(* Model selection: BaseAIService.selectModel (priority defaults to        *)
(* 'quality') and the ModelSelector of BACKEND_PATTERNS.md.                *)
(***************************************************************************)
Complexities == {"simple", "moderate", "complex"}
Priorities == {"speed", "quality"}

selectModelSpeedFirst(complexity, priority) ==
    IF priority = "speed" THEN "fast" ELSE "complex"
selectModel(complexity, priority) ==
    IF priority = "speed" /\ complexity # "complex" THEN "fast"
    ELSE IF complexity = "complex" \/ priority = "quality" THEN "complex"
    ELSE "fast"

ModelSelectorSelectModel(complexity, priority) ==
    IF priority = "speed" /\ complexity = "simple" THEN "fast"
    ELSE IF complexity = "complex" \/ priority = "quality" THEN "complex"
    ELSE "fast"

SmStart == smLog = << >>

\* one selection, made by both routines
SmSelect ==
    /\ Len(smLog) < MaxSelections
    /\ \E c \in Complexities, p \in Priorities :
          smLog' = Append(smLog, [complexity |-> c, priority |-> p,
                                  base |-> selectModel(c, p),
                                  documented |-> ModelSelectorSelectModel(c, p)])

(***************************************************************************)
(* CachedAIService.generateWithCache.  Time is in milliseconds; a value    *)
(* that a generator produces is named by the position of its invocation.   *)
(***************************************************************************)
CACHE_TTL == 3600000

Keys == {"a", "b"}

NoEntry == [present |-> FALSE, value |-> 0, timestamp |-> 0]

\* if (cached && Date.now() - cached.timestamp < this.CACHE_TTL)
CacheHitAlways(cached, t) == cached.present
CacheHit(cached, t) == cached.present /\ t - cached.timestamp < CACHE_TTL

CaStart ==
    /\ cache = [k \in Keys |-> NoEntry]
    /\ now = 0
    /\ caCalls = << >>
    /\ genLog = << >>

\* generateWithCache(key, generator) up to its await: a hit returns the
\* stored value, a miss invokes the generator
CaCall(key) ==
    /\ Len(caCalls) < MaxCalls
    /\ IF CacheHit(cache[key], now)
          THEN /\ caCalls' = Append(caCalls, [key |-> key, state |-> "returned",
                                              value |-> cache[key].value, invocation |-> 0])
               /\ genLog' = genLog
          ELSE /\ genLog' = Append(genLog, [key |-> key, start |-> now, outcome |-> "pending",
                                             settled |-> 0])
               /\ caCalls' = Append(caCalls, [key |-> key, state |-> "awaiting",
                                              value |-> 0, invocation |-> Len(genLog')])
    /\ UNCHANGED <<cache, now>>

\* the generator of call i settles: its value is stored with the current
\* time and returned, or its error is thrown and nothing is stored
CaSettle(i) ==
    /\ i \in DOMAIN caCalls
    /\ caCalls[i].state = "awaiting"
    /\ LET g == caCalls[i].invocation IN
       \/ /\ genLog' = [genLog EXCEPT ![g].outcome = "ok", ![g].settled = now]
          /\ cache' = [cache EXCEPT ![caCalls[i].key] =
                          [present |-> TRUE, value |-> g, timestamp |-> now]]
          /\ caCalls' = [caCalls EXCEPT ![i].state = "returned", ![i].value = g]
       \/ /\ genLog' = [genLog EXCEPT ![g].outcome = "failed", ![g].settled = now]
          /\ cache' = cache
          /\ caCalls' = [caCalls EXCEPT ![i].state = "thrown"]
    /\ UNCHANGED now

\* time passes, half a TTL at a time
CaTick ==
    /\ now < MaxTicks * (CACHE_TTL \div 2)
    /\ now' = now + CACHE_TTL \div 2
    /\ UNCHANGED <<cache, caCalls, genLog>>

CaNext == (\E k \in Keys : CaCall(k)) \/ (\E i \in 1..MaxCalls : CaSettle(i)) \/ CaTick

(***************************************************************************)
(* The AgentInteraction component of the frontend examples.  A string     *)
(* is described by its length, the length of its trim(), whether           *)
(* customValidation accepts it and whether it accepts its trim().          *)
(***************************************************************************)
DefaultMaxInputLength == 5000

AgInputs ==
    LET Lengths == {0, 3, DefaultMaxInputLength, DefaultMaxInputLength + 1} IN
    {v \in [length : Lengths, trimmed : Lengths, ok : BOOLEAN, trimmedOk : BOOLEAN] :
        /\ v.trimmed <= v.length
        /\ v.trimmed = v.length => v.ok = v.trimmedOk
        /\ v.trimmed = 0 => v.trimmedOk}

EmptyInput == [length |-> 0, trimmed |-> 0, ok |-> TRUE, trimmedOk |-> TRUE]

\* value.trim()
AgTrim(v) == [length |-> v.trimmed, trimmed |-> v.trimmed, ok |-> v.trimmedOk,
              trimmedOk |-> v.trimmedOk]

\* validateInput of the component: the error message, "null" when valid
AgValidateInput(v) ==
    IF v.trimmed = 0 THEN "Input cannot be empty"
    ELSE IF v.length > DefaultMaxInputLength THEN "Input too long"
    ELSE IF ~v.ok THEN "custom"
    ELSE "null"

\* disabled={isLoading} of the textarea
TextareaDisabled == agIsLoading

\* disabled={!input.trim() || isLoading || !!validationError} of the button
SubmitDisabledIgnoresLoading == agInput.trimmed = 0 \/ agValidationError # "null"
SubmitDisabled == agInput.trimmed = 0 \/ agIsLoading \/ agValidationError # "null"

AgStart ==
    /\ agInput = EmptyInput
    /\ agIsLoading = FALSE
    /\ agValidationError = "null"
    /\ agSubmits = << >>

\* handleInputChange: the textarea takes input only while it is enabled
AgInputChange ==
    /\ ~TextareaDisabled
    /\ \E v \in AgInputs :
          /\ agInput' = v
          /\ agValidationError' = AgValidateInput(v)
    /\ UNCHANGED <<agIsLoading, agSubmits>>

\* loadExample: an example chip is clicked
AgLoadExample ==
    /\ \E v \in AgInputs : agInput' = v
    /\ agValidationError' = "null"
    /\ UNCHANGED <<agIsLoading, agSubmits>>

\* handleSubmit: trim, validate the trimmed input, submit({ input: trimmedInput });
\* submit of useObject sets isLoading
handleSubmit ==
    LET trimmedInput == AgTrim(agInput)
        error == AgValidateInput(trimmedInput) IN
    IF error # "null"
       THEN /\ agValidationError' = error
            /\ UNCHANGED <<agInput, agIsLoading, agSubmits>>
       ELSE /\ agValidationError' = "null"
            /\ agSubmits' = Append(agSubmits, [input |-> trimmedInput,
                                               whileLoading |-> agIsLoading])
            /\ agIsLoading' = TRUE
            /\ UNCHANGED agInput

\* the Submit button is clicked (a disabled button takes no click)
AgSubmitClick ==
    /\ ~SubmitDisabled
    /\ Len(agSubmits) < MaxSubmits
    /\ handleSubmit

\* handleKeyDown on the textarea: Cmd/Ctrl+Enter submits; Escape stops only
\* when isLoading, and a disabled textarea gets no key event
AgKeyDown ==
    /\ ~TextareaDisabled
    /\ Len(agSubmits) < MaxSubmits
    /\ \/ handleSubmit
       \/ /\ agIsLoading
          /\ agIsLoading' = FALSE
          /\ UNCHANGED <<agInput, agValidationError, agSubmits>>

\* the stop button, rendered while isLoading: stop() of useObject
AgStop ==
    /\ agIsLoading
    /\ agIsLoading' = FALSE
    /\ UNCHANGED <<agInput, agValidationError, agSubmits>>

\* the response ends
AgFinish ==
    /\ agIsLoading
    /\ agIsLoading' = FALSE
    /\ UNCHANGED <<agInput, agValidationError, agSubmits>>

AgNext == AgInputChange \/ AgLoadExample \/ AgSubmitClick \/ AgKeyDown \/ AgStop \/ AgFinish

(***************************************************************************)
(* SequentialProcessingDisplay.getCurrentStep on the partial object that   *)
(* useObject delivers: a field is absent or present, a text grows, and the *)
(* evaluation object is there before its score is.                         *)
(***************************************************************************)
DisplayThreshold == 70

NoResult == [originalContent |-> "absent", evaluation |-> "absent", score |-> 0,
             improvedContent |-> "absent"]

\* undefined < 7 is false
getCurrentStep(result) ==
    IF result.originalContent = "absent" THEN 0
    ELSE IF result.evaluation = "absent" THEN 1
    ELSE IF result.improvedContent = "absent"
            /\ result.evaluation = "scored" /\ result.score < DisplayThreshold THEN 2
    ELSE 3

SdStart ==
    /\ sdResult = NoResult
    /\ sdSteps = <<getCurrentStep(NoResult)>>

\* the next partial object arrives, one field further, and the stepper is
\* rendered again
SdRefine ==
    /\ \/ /\ sdResult.originalContent \in {"absent", "partial"}
          /\ \E c \in {"partial", "full"} :
                /\ c # sdResult.originalContent
                /\ sdResult' = [sdResult EXCEPT !.originalContent = c]
       \/ /\ sdResult.evaluation = "absent"
          /\ sdResult' = [sdResult EXCEPT !.evaluation = "unscored"]
       \/ /\ sdResult.evaluation = "unscored"
          /\ \E s \in {50, 69, 70, 100} :
                sdResult' = [sdResult EXCEPT !.evaluation = "scored", !.score = s]
       \/ /\ sdResult.improvedContent \in {"absent", "partial"}
          /\ \E c \in {"partial", "full"} :
                /\ c # sdResult.improvedContent
                /\ sdResult' = [sdResult EXCEPT !.improvedContent = c]
    /\ sdSteps' = Append(sdSteps, getCurrentStep(sdResult'))

(***************************************************************************)
(* useDebounced and useDebouncedAIStream.  submit is the handleSubmit of   *)
(* useAIStream, a function that is created anew in every render, so the    *)
(* effect with the dependencies [debouncedInput, submit] runs after every  *)
(* render.                                                                 *)
(***************************************************************************)
DbValues == {"", " ", "a", "a ", "ab", "ab ", "abc", " abc"}

\* value.trim()
DbTrim(v) == IF v = " " THEN "" ELSE IF v = "a " THEN "a" ELSE IF v = "ab " THEN "ab"
             ELSE IF v = " abc" THEN "abc" ELSE v

NoTimer == [pending |-> FALSE, value |-> ""]

\* useEffect(() => { if (debouncedInput.trim()) submit({ input: debouncedInput.trim() }) },
\*           [debouncedInput, submit]) after a render
SubmitEffect(debounced, submits) ==
    IF DbTrim(debounced) # "" THEN Append(submits, DbTrim(debounced)) ELSE submits

\* after the first render: the effect of useDebounced has set its timer and
\* the submit effect found an empty value
DbStart ==
    /\ dbInput = ""
    /\ dbDebounced = ""
    /\ dbTimer = [pending |-> TRUE, value |-> ""]
    /\ dbSubmits = << >>

\* setInput(v): render; the effect of useDebounced clears the pending timer
\* and sets one for v; the submit effect runs
DbSetInput ==
    /\ Len(SubmitEffect(dbDebounced, dbSubmits)) <= MaxSubmits
    /\ \E v \in DbValues \ {dbInput} :
          /\ dbInput' = v
          /\ dbTimer' = [pending |-> TRUE, value |-> v]
    /\ dbSubmits' = SubmitEffect(dbDebounced, dbSubmits)
    /\ UNCHANGED dbDebounced

\* the timer fires after the delay: setDebouncedValue(value); a changed
\* value renders and the submit effect runs
DbTimerFires ==
    /\ dbTimer.pending
    /\ Len(SubmitEffect(dbTimer.value, dbSubmits)) <= MaxSubmits
    /\ dbTimer' = NoTimer
    /\ dbDebounced' = dbTimer.value
    /\ dbSubmits' = IF dbTimer.value # dbDebounced
                       THEN SubmitEffect(dbTimer.value, dbSubmits)
                       ELSE dbSubmits
    /\ UNCHANGED dbInput

\* the stream of a submitted request changes data or isLoading: render, and
\* the submit effect runs
DbStreamRender ==
    /\ dbSubmits # << >>
    /\ Len(SubmitEffect(dbDebounced, dbSubmits)) <= MaxSubmits
    /\ dbSubmits' = SubmitEffect(dbDebounced, dbSubmits)
    /\ UNCHANGED <<dbInput, dbDebounced, dbTimer>>

DbNext == DbSetInput \/ DbTimerFires \/ DbStreamRender

(***************************************************************************)
(* The client of the request stops it: stop() of useObject aborts the      *)
(* fetch.  PatternController.handleRequest takes no request object and no  *)
(* service takes an abort signal, so nothing on the server reads it.       *)
(***************************************************************************)
ClientStop ==
    /\ ctlPc \in {"await", "piping"}
    /\ ~aborted
    /\ aborted' = TRUE

(***************************************************************************)
(* Specifications.  A request to the server runs one of the pattern        *)
(* services; the component is a program of its own.                        *)
(***************************************************************************)
DjIdle == DjStart

UtilIdle == SmStart /\ CaStart /\ AgStart /\ SdStart /\ DbStart

Init ==
    /\ \/ EOStart /\ SeqIdle /\ RtIdle /\ ParIdle /\ OwIdle /\ TuIdle
       \/ EOIdle /\ SeqStart /\ RtIdle /\ ParIdle /\ OwIdle /\ TuIdle
       \/ EOIdle /\ SeqIdle /\ RtStart /\ ParIdle /\ OwIdle /\ TuIdle
       \/ EOIdle /\ SeqIdle /\ RtIdle /\ ParStart /\ OwIdle /\ TuIdle
       \/ EOIdle /\ SeqIdle /\ RtIdle /\ ParIdle /\ OwStart /\ TuIdle
       \/ EOIdle /\ SeqIdle /\ RtIdle /\ ParIdle /\ OwIdle /\ TuStart
    /\ CtlStart
    /\ ExIdle
    /\ DjIdle
    /\ aborted = FALSE
    /\ UtilIdle

Next ==
    \/ EONext /\ UNCHANGED <<seqVars, rtVars, parVars, owVars, tuVars, ctlVars, exVars, djVars, aborted, utilVars>>
    \/ SeqNext /\ UNCHANGED <<eoVars, rtVars, parVars, owVars, tuVars, ctlVars, exVars, djVars, aborted, utilVars>>
    \/ RtNext /\ UNCHANGED <<eoVars, seqVars, parVars, owVars, tuVars, ctlVars, exVars, djVars, aborted, utilVars>>
    \/ ParNext /\ UNCHANGED <<eoVars, seqVars, rtVars, owVars, tuVars, ctlVars, exVars, djVars, aborted, utilVars>>
    \/ OwNext /\ UNCHANGED <<eoVars, seqVars, rtVars, parVars, tuVars, ctlVars, exVars, djVars, aborted, utilVars>>
    \/ TuNext /\ UNCHANGED <<eoVars, seqVars, rtVars, parVars, owVars, ctlVars, exVars, djVars, aborted, utilVars>>
    \/ CtlNext /\ UNCHANGED <<eoVars, seqVars, rtVars, parVars, owVars, tuVars, exVars, djVars, aborted, utilVars>>
    \/ ClientStop /\ UNCHANGED <<eoVars, seqVars, rtVars, parVars, owVars, tuVars, ctlVars,
                                  exVars, djVars, utilVars>>

Spec == Init /\ [][Next]_vars

\* every continuation that is ready is run by the event loop
SpecLive == Spec /\ WF_vars(Next)

ServicesIdle == EOIdle /\ SeqIdle /\ RtIdle /\ ParIdle /\ OwIdle /\ TuIdle /\ CtlIdle

InitClient == ServicesIdle /\ ExIdle /\ DjStart /\ aborted = FALSE /\ UtilIdle

NextClient ==
    DjNext /\ UNCHANGED <<eoVars, seqVars, rtVars, parVars, owVars, tuVars, ctlVars, exVars,
                          aborted, utilVars>>

SpecClient == InitClient /\ [][NextClient]_vars

InitExample == ServicesIdle /\ ExStart /\ DjIdle /\ aborted = FALSE /\ UtilIdle

NextExample ==
    ExNext /\ UNCHANGED <<eoVars, seqVars, rtVars, parVars, owVars, tuVars, ctlVars, djVars,
                          aborted, utilVars>>

SpecExample == InitExample /\ [][NextExample]_vars

\* the utilities and the client components: each is a program of its own
\* that starts from its initial state
InitUtil == ServicesIdle /\ ExIdle /\ DjIdle /\ aborted = FALSE /\ UtilIdle

ServerVars == <<eoVars, seqVars, rtVars, parVars, owVars, tuVars, ctlVars, exVars, djVars, aborted>>

NextSelect == SmSelect /\ UNCHANGED <<ServerVars, caVars, agVars, sdVars, dbVars>>
SpecSelect == InitUtil /\ [][NextSelect]_vars

NextCache == CaNext /\ UNCHANGED <<ServerVars, smVars, agVars, sdVars, dbVars>>
SpecCache == InitUtil /\ [][NextCache]_vars

NextAgent == AgNext /\ UNCHANGED <<ServerVars, smVars, caVars, sdVars, dbVars>>
SpecAgent == InitUtil /\ [][NextAgent]_vars

NextDisplay == SdRefine /\ UNCHANGED <<ServerVars, smVars, caVars, agVars, dbVars>>
SpecDisplay == InitUtil /\ [][NextDisplay]_vars

NextDebounce == DbNext /\ UNCHANGED <<ServerVars, smVars, caVars, agVars, sdVars>>
SpecDebounce == InitUtil /\ [][NextDebounce]_vars

(***************************************************************************)
(* Properties of the pattern services (checked under Spec).                *)
(***************************************************************************)
\* positions of the calls of a call log that were made in a given context
CallsIn(calls, context) == {i \in DOMAIN calls : calls[i].context = context}
StreamCalls(calls) == {i \in DOMAIN calls : calls[i].fn = "streamObject"}

\* position in eoCalls of the r-th evaluation call
EvalPosition(r) ==
    CHOOSE p \in CallsIn(eoCalls, "Evaluation") :
        Cardinality({q \in CallsIn(eoCalls, "Evaluation") : q < p}) = r - 1

\* C1: with maxIterations = M >= 1 the Evaluator-Optimizer loop makes at most
\* M evaluation calls, and once an evaluation has returned a score at or above
\* targetScore the only call that follows it is the final summary stream call
\* (no further evaluation, no improvement).
C1_ConvergenceBound ==
    /\ Cardinality(CallsIn(eoCalls, "Evaluation")) <= maxIterations
    /\ \A r \in DOMAIN iterations :
          iterations[r].evaluation.score >= 85 =>
              \A j \in (EvalPosition(r) + 1)..Len(eoCalls) : eoCalls[j].context = "Summary"

\* C1 witness: a run with a budget of three that converged at its second
\* evaluation and went on to the summary call
C1_Witness ==
    /\ eoPc = "returned"
    /\ maxIterations = 3
    /\ Len(iterations) = 2
    /\ iterations[1].evaluation.score = 50
    /\ iterations[2].evaluation.score = 90

\* C2: when the loop has finished, there are as many iteration records as
\* evaluation calls, the candidate handed to the summary call is the candidate
\* of the last record (so it has been evaluated and the final score is that
\* record's score), and the summary call gets the whole history; with a budget
\* of 3 and scores 5.0 then 9.0 there are 2 evaluation calls and 2 records and
\* the final score is 9.0.
C2_FinalCandidateEvaluated ==
    eoPc \in {"summary", "returned"} =>
        /\ Len(iterations) = Cardinality(CallsIn(eoCalls, "Evaluation"))
        /\ iterations # << >>
        /\ currentTranslation = Last(iterations).translation
        /\ eoPc = "returned" =>
              /\ Last(eoCalls).context = "Summary"
              /\ Last(eoCalls).translation = Last(iterations).translation
              /\ Last(eoCalls).iterations = iterations
        /\ (/\ maxIterations = 3
            /\ iterations[1].evaluation.score = 50
            /\ Len(iterations) >= 2
            /\ iterations[2].evaluation.score = 90)
              => /\ Len(iterations) = 2
                 /\ Cardinality(CallsIn(eoCalls, "Evaluation")) = 2
                 /\ Last(iterations).evaluation.score = 90

\* C2 witness: the run of the example, in which the improvement changed the
\* candidate, after its summary call
C2_Witness ==
    /\ eoPc = "returned"
    /\ maxIterations = 3
    /\ Len(iterations) = 2
    /\ iterations[1].evaluation.score = 50
    /\ iterations[2].evaluation.score = 90
    /\ iterations[1].translation = "tA"
    /\ iterations[2].translation = "tB"
    /\ Last(eoCalls).translation = "tB"

\* C3: the Sequential pattern makes one generation call, then one evaluation
\* call, then one streaming call; the streaming call carries the improvement
\* prompt exactly when the score is below 7 and the passthrough prompt
\* otherwise, and there is never more than one improvement pass.
C3_SequentialSingleBranch ==
    /\ Len(seqCalls) <= 3
    /\ Len(seqCalls) >= 1 => seqCalls[1].fn = "generateText"
    /\ Len(seqCalls) >= 2 => seqCalls[2].fn = "generateObject"
    /\ Len(seqCalls) >= 3 =>
          /\ seqCalls[3].fn = "streamObject"
          /\ seqCalls[3].promptKind \in {"improve", "package"}
          /\ (seqCalls[3].promptKind = "improve") <=> (seqEvaluation.score < 70)
          /\ seqCalls[3].score = seqEvaluation.score
    /\ seqPc = "returned" => Len(seqCalls) = 3
    /\ Cardinality({i \in DOMAIN seqCalls : seqCalls[i].promptKind = "improve"}) <= 1

\* C3 witness: a finished run whose score 7.0 is not below the threshold
C3_Witness ==
    /\ seqPc = "returned"
    /\ seqEvaluation.score = 70
    /\ seqCalls[3].promptKind = "package"

\* C4: in the Routing pattern the classification call has completed before
\* the single streaming call is issued; the streaming call uses the specialist
\* registered for the category when it is technical, marketing or support and
\* the default specialist otherwise, and the complex model exactly when the
\* complexity is 'complex' (support + simple: fast model, support specialist).
C4_RoutingSelection ==
    /\ Len(rtCalls) <= 2
    /\ Len(rtCalls) >= 1 => rtCalls[1].fn = "generateObject" /\ rtCalls[1].model = "fast"
    /\ \A i \in StreamCalls(rtCalls) :
          LET c == rtCalls[i].classification IN
          /\ i = 2
          /\ c = rtClassification
          /\ c.category \in {"technical", "marketing", "support", "general"}
          /\ c.category = "technical" => rtCalls[i].specialist = "senior software engineer"
          /\ c.category = "marketing" => rtCalls[i].specialist = "marketing specialist"
          /\ c.category = "support" => rtCalls[i].specialist = "customer support specialist"
          /\ c.category \notin {"technical", "marketing", "support"}
                => rtCalls[i].specialist = "helpful assistant"
          /\ (rtCalls[i].model = "complex") <=> (c.complexity = "complex")
          /\ rtCalls[i].model \in {"complex", "fast"}

\* C4 witness: the query classified {support, simple} has been answered
C4_Witness ==
    /\ rtPc = "returned"
    /\ rtClassification.category = "support"
    /\ rtClassification.complexity = "simple"
    /\ rtCalls[2].model = "fast"

\* C5: in the Parallel pattern, once a review branch has failed the
\* execution can only end with the error: the awaited Promise.all is rejected,
\* reviewCode never returns a stream and no combined-analysis call is issued,
\* whatever the surviving branches deliver.
C5_ParallelAllOrNothing ==
    (\E i \in DOMAIN parBranch : parBranch[i].state = "rejected") =>
        /\ parAll = "rejected"
        /\ parPc \in {"await", "thrown"}
        /\ StreamCalls(parCalls) = {}

\* C5 witness: reviewCode has thrown although two branches delivered a review
C5_Witness ==
    /\ parPc = "thrown"
    /\ Cardinality({i \in DOMAIN parBranch : parBranch[i].state = "fulfilled"}) = 2
    /\ Cardinality({i \in DOMAIN parBranch : parBranch[i].state = "rejected"}) = 1

\* the aggregation call of a fan-out hands over one result per branch, each
\* in the slot of the branch that produced it, and every branch is fulfilled
Barrier(calls, br, n) ==
    \A c \in StreamCalls(calls) :
        /\ Len(br) = n
        /\ \A i \in DOMAIN br : br[i].state = "fulfilled"
        /\ Len(calls[c].results) = n
        /\ \A i \in 1..n : /\ calls[c].results[i].producer = i
                           /\ calls[c].results[i] = br[i].object

\* C6: in the Parallel and Orchestrator-Worker patterns, in whatever order
\* the branches complete, the aggregation call is issued only after every
\* branch has resolved, with as many results as branches and result i being
\* the result of branch (task) i.
C6_BarrierAndSlots ==
    /\ Barrier(parCalls, parBranch, 3)
    /\ Barrier(owCalls, owTask, Len(owPlan))

\* C6 witness: the combined analysis was issued after the branches completed
\* in the reverse of their array order
C6_Witness ==
    /\ parPc = "returned"
    /\ parBranch[3].order = 1
    /\ parBranch[2].order = 2
    /\ parBranch[1].order = 3
    /\ parCalls[4].results[1].score # parCalls[4].results[3].score

\* C6 second witness: the summary of a two-task plan whose second task
\* completed first
C6_WitnessTasks ==
    /\ owPc = "returned"
    /\ Len(owPlan) = 2
    /\ owTask[2].order = 1

(***************************************************************************)
(* Task dependencies of a plan.                                            *)
(***************************************************************************)
\* the pairs <<task, prerequisite>> a plan declares
DependsOn(plan) == {<<i, d>> \in (DOMAIN plan) \X TaskIds : d \in plan[i].dependencies}

RECURSIVE Closure(_, _)
Closure(R, n) ==
    IF n = 0 THEN R
    ELSE Closure(R \cup {<<a, c>> \in TaskIds \X TaskIds :
                            \E b \in TaskIds : <<a, b>> \in R /\ <<b, c>> \in R}, n - 1)

Cyclic(plan) == \E i \in DOMAIN plan : <<i, i>> \in Closure(DependsOn(plan), MaxTasks)
Unsatisfiable(plan) == \E i \in DOMAIN plan : \E d \in plan[i].dependencies : d \notin DOMAIN plan

\* C7: a task that declares dependencies does not start executing (its
\* generateObject call is not issued) until every prerequisite task has
\* delivered its result.
C7_DependenciesAwaited ==
    [][\A i \in DOMAIN owTask :
          (owTask[i].state = "timer" /\ owTask'[i].state = "pending") =>
              \A d \in owPlan[i].dependencies :
                  d \in DOMAIN owTask /\ owTask[d].state = "fulfilled"]_vars

\* C8: a plan whose dependencies contain a cycle or name a prerequisite that
\* no task provides is rejected: none of its tasks is executed, no summary
\* call is issued and implementFeature does not return a stream.
C8_InvalidPlanRejected ==
    (Cyclic(owPlan) \/ Unsatisfiable(owPlan)) =>
        /\ \A i \in DOMAIN owTask : owTask[i].state = "timer"
        /\ StreamCalls(owCalls) = {}
        /\ owPc # "returned"

(***************************************************************************)
(* Properties of the defensive JSON component (checked under SpecClient).  *)
(***************************************************************************)
StrNode(str) == Node("str", str, << >>, << >>)

\* the value each schema-valid text of the model denotes, written out by hand
Denotes(txt) ==
    IF txt \in {TitleHi, TitleHiSpace} THEN [EmptyData EXCEPT !.title = StrNode(<<"H", "i">>)]
    ELSE IF txt = UnknownKey THEN [EmptyData EXCEPT !.title = StrNode(<<"A">>)]
    ELSE [EmptyData EXCEPT !.items = Node("arr", << >>, << >>, <<StrNode(<<"a">>)>>)]

SchemaValidTexts == {TitleHi, TitleHiSpace, UnknownKey, ItemsText}

\* C9: while a response is streaming, an accumulated text that is not a
\* complete JSON document changes neither parsedData nor parseError and emits
\* nothing; parseError is set only by a parse that fails when the stream is no
\* longer loading; and for {"title":"Hi"} nothing is emitted before the whole
\* text is there (so chunks {"tit and le":"Hi"} emit after the second chunk).
C9_NoEmissionOnPartialText ==
    /\ [][(isLoading /\ isLoading' /\ messages' # messages
              /\ ~JSONParse(ReceivedText(messages')).ok)
            => UNCHANGED <<parsedData, parseError, emitted>>]_vars
    /\ [][(parseError' = InvalidJson /\ parseError # InvalidJson)
            => (~isLoading' /\ ~JSONParse(ReceivedText(messages')).ok)]_vars
    /\ [](isLoading => parseError = NoError)
    /\ []((fullText = TitleHi /\ isLoading /\ Received < Len(TitleHi))
            => (emitted = << >> /\ parsedData = EmptyData))
    /\ []((fullText = TitleHi /\ Received = Len(TitleHi))
            => (Len(emitted) >= 1 /\ emitted[1].title = StrNode(<<"H", "i">>)
                /\ parsedData = emitted[1]))

\* C9 witness: a value is on display, the stream goes on and the text has
\* stopped being a document
C9_Witness ==
    /\ isLoading
    /\ fullText = TitleThenJunk
    /\ Received = Len(TitleThenJunk)
    /\ Len(emitted) = 1
    /\ parsedData.title = StrNode(<<"A">>)
    /\ parseError = NoError

\* C9 second witness: the first chunk {"tit of the example has arrived
C9_WitnessFirstChunk ==
    /\ isLoading
    /\ fullText = TitleHi
    /\ ReceivedText(messages) = TitlePrefix
    /\ emitted = << >>

\* C10: for every text that is valid against the schema and every way of
\* splitting it into chunks, once all chunks have been fed the last emitted
\* value, which is the value on display, is the value that parsing and
\* validating the whole text yields.
C10_ChunkingInvariant ==
    (Requests >= 1 /\ Received = Len(fullText) /\ fullText \in SchemaValidTexts) =>
        /\ emitted # << >>
        /\ Last(emitted) = Denotes(fullText)
        /\ parsedData = Denotes(fullText)
        /\ JSONParse(fullText).ok
        /\ safeParse(JSONParse(fullText).node).data = Denotes(fullText)

\* C10 witness: a text with trailing white space arrived in three chunks, the
\* second of which completed the document, and the response has ended
C10_Witness ==
    /\ ~isLoading
    /\ fullText = TitleHiSpace
    /\ Received = Len(TitleHiSpace)
    /\ Len(emitted) = 3
    /\ parsedData = Denotes(TitleHiSpace)

\* the response texts that yield no valid value: they do not parse, or they
\* parse to a value the schema rejects
ParsedButRejected == {TitleNumber, TopNumber, NullText, StatusDone}
NotParsing == {TitlePrefix, TitleThenJunk, Truncated}

\* C11: once a response has ended, a final text that does not validate (it is
\* truncated, or a field of the parsed value is ill-typed) has put the
\* component into its explicit error state; the failure is not dropped.
C11_FinalFailureSurfaced ==
    (~isLoading /\ Requests >= 1 /\ Received = Len(fullText)
        /\ fullText \in ParsedButRejected \cup NotParsing)
      => parseError = InvalidJson

\* C13: a successful parse whose value is structurally equal to the value
\* emitted before it produces no new emission: no two consecutive emissions
\* of one response are equal.
C13_NoDuplicateEmission ==
    \A i \in 1..(Len(emitted) - 1) : emitted[i + 1] # emitted[i]

(***************************************************************************)
(* Properties of the tool-use service (checked under Spec).                *)
(***************************************************************************)
\* a payload the calculate tool may hand back: the success payload with a
\* result, or the error payload with a message
StructuredResult(o) ==
    /\ ~o.thrown
    /\ \/ o.success /\ "result" \in o.keys /\ "error" \notin o.keys /\ o.result # << >>
       \/ ~o.success /\ "error" \in o.keys /\ "result" \notin o.keys /\ o.error # ""

CalculateResults == {i \in DOMAIN tuHistory : tuHistory[i].tool = "calculate"}

\* C14: the calculate tool always returns a structured result, the success
\* payload with the value (2+2 gives "4", 3*4 gives "12") or the error
\* payload with a message when the evaluation fails; it never throws, so the
\* generating loop goes on after a failed calculation.
C14_CalculateAlwaysReturns ==
    /\ tuEnd # "thrown"
    /\ \A i \in CalculateResults :
          LET o == tuHistory[i].output IN
          /\ StructuredResult(o)
          /\ o.expression = "2+2" => o.result = <<"4">>
          /\ o.expression = "3*4" => o.result = <<"1", "2">>
          /\ o.expression \in {"2+", "x", ""} => ~o.success

\* C14 witness: evaluate returned undefined for the empty expression, the
\* tool returned the error payload and a later step calculated 3*4
C14_Witness ==
    /\ Len(tuHistory) = 2
    /\ tuHistory[1].tool = "calculate"
    /\ tuHistory[1].output.expression = ""
    /\ tuHistory[1].output.error = TypeErrorMessage
    /\ tuHistory[2].tool = "calculate"
    /\ tuHistory[2].output.result = <<"1", "2">>
    /\ tuStep = 2

\* C15: the tool-use execution ends with a final answer or, when the step
\* ceiling is reached, with the StepLimitExceeded marker; it takes no more
\* steps than the ceiling, and a first step that requests one calculation
\* followed by a step that gives the final answer ends within 2 steps.
C15_ToolLoopTerminates ==
    /\ tuStep <= tuCeiling
    /\ tuEnd # "none" => tuEnd \in {"final", "StepLimitExceeded"}
    /\ (tuEnd = "final" /\ Len(tuHistory) = 1) => tuStep <= 2

(***************************************************************************)
(* Properties of validateInput and withRetry (checked under SpecExample).  *)
(***************************************************************************)
\* C16: withRetry with maxRetries = R >= 0 invokes the operation at most
\* R + 1 times (3 with the default), returns the result of the first
\* invocation that succeeds without invoking again, and throws the error of
\* the last invocation when all R + 1 fail.
C16_RetryBound ==
    /\ Len(exCalls) <= exMaxRetries + 1
    /\ exMaxRetries = DefaultMaxRetries => Len(exCalls) <= 3
    /\ \A i \in DOMAIN exCalls :
          /\ exCalls[i].attempt = i - 1
          /\ exCalls[i].outcome = "stream" =>
                (i = Len(exCalls) /\ exPc = "returned" /\ exResult = i)
    /\ exPc = "returned" => Last(exCalls).outcome = "stream"
    /\ (exPc = "thrown" /\ exThrown.kind # "InputValidation") =>
          /\ Len(exCalls) = exMaxRetries + 1
          /\ \A i \in DOMAIN exCalls : exCalls[i].outcome \in ErrorKinds
          /\ exThrown.kind = Last(exCalls).outcome
          /\ exThrown.attempt = exMaxRetries

\* C16 witness: with the default maxRetries three invocations failed, a
\* timeout first and a rate limit last, and the rate limit error is thrown
C16_Witness ==
    /\ exPc = "thrown"
    /\ exMaxRetries = DefaultMaxRetries
    /\ Len(exCalls) = 3
    /\ exCalls[1].outcome = "ProviderTimeout"
    /\ exThrown.kind = "ProviderRateLimited"

\* C16 second witness: the second invocation succeeded and its result is
\* returned
C16_WitnessReturned ==
    /\ exPc = "returned"
    /\ exMaxRetries = DefaultMaxRetries
    /\ Len(exCalls) = 2
    /\ exResult = 2

\* C17: an invocation that fails with a malformed response is the last one:
\* the error is thrown at once, and only timeouts and rate limits are
\* followed by another attempt.
C17_MalformedNotRetried ==
    \A i \in DOMAIN exCalls :
        exCalls[i].outcome = "ProviderMalformedResponse" =>
            /\ i = Len(exCalls)
            /\ exPc = "thrown"
            /\ exThrown.kind = "ProviderMalformedResponse"

\* the inputs the claim says are rejected
Rejects(input) ==
    input.length = 0 \/ input.trimmed = 0 \/ input.length > DefaultMaxLength

\* C18: processExample rejects its input exactly when it is empty, only
\* white space or longer than maxLength (a suspicious pattern alone does not
\* reject), and a rejected input throws before any generation call is issued
\* and before the retry loop is entered.
C18_ValidationFirst ==
    /\ exPc # "validate" => ((exThrown.kind = "InputValidation") <=> Rejects(exInput))
    /\ exThrown.kind = "InputValidation" =>
          /\ exPc = "thrown"
          /\ exCalls = << >>
          /\ exDelays = << >>
          /\ attempt = 0 /\ delayMs = 0 /\ lastError = NoException
    /\ exCalls # << >> => ~Rejects(exInput)

\* C18 witness: an input that matches a suspicious pattern was accepted and
\* the generation call was issued
C18_Witness ==
    /\ exInput.suspicious
    /\ exInput.length = DefaultMaxLength
    /\ Len(exCalls) = 1

\* C18 second witness: an input one character too long was rejected
C18_WitnessTooLong ==
    /\ exPc = "thrown"
    /\ exInput.length = DefaultMaxLength + 1
    /\ exInput.trimmed > 0
    /\ exThrown.message = TooLongMessage

(***************************************************************************)
(* Properties of the response (checked under Spec and SpecLive).           *)
(***************************************************************************)
InRange(s) == MinScore <= s /\ s <= MaxScore

\* C19: every evaluation score that is emitted lies in [1, 10]: the scores
\* of the iteration records, the score of the Sequential evaluation and the
\* score the streamed final object carries.
C19_ScoresInRange ==
    /\ \A i \in DOMAIN iterations : InRange(iterations[i].evaluation.score)
    /\ seqPc \in {"stream", "returned"} => InRange(seqEvaluation.score)
    /\ finalObject.carriesScore => InRange(finalObject.score)

\* the response ended as a completed stream or as the error answer
WellFormedTerminal ==
    /\ ctlPc = "closed"
    /\ \/ resStatus = 200 /\ resBody.kind = "stream" /\ resBody.complete
       \/ /\ resStatus = 500 /\ resBody.kind = "json"
          /\ resBody.error # "" /\ resBody.timestamp

\* C20: every request eventually receives a well-formed terminal signal: the
\* stream completes, or the failure is answered with HTTP 500 and a body
\* that carries an error string and a timestamp.
C20_TerminalSignal == <>WellFormedTerminal

(***************************************************************************)
(* Further properties of withRetry, the controller, the Evaluator-         *)
(* Optimizer loop and the defensive JSON component.                        *)
(***************************************************************************)
RECURSIVE Pow2(_)
Pow2(n) == IF n = 0 THEN 1 ELSE 2 * Pow2(n - 1)

\* C22: the delay before the k-th retry is delayMs * 2^(k-1), an attempt
\* starts only after the delay before it has elapsed, and no delay is taken
\* after the final failed attempt or after a success.
C22_ExponentialBackoff ==
    /\ \A k \in DOMAIN exDelays : exDelays[k] = DefaultDelayMs * Pow2(k - 1)
    /\ Len(exDelays) <= exMaxRetries
    /\ exCalls # << >> => Len(exDelays) \in {Len(exCalls) - 1, Len(exCalls)}
    /\ exPc = "delay" => Len(exDelays) = Len(exCalls) - 1
    /\ Len(exDelays) = Len(exCalls) => (exCalls # << >> => exPc = "attempt")
    /\ (exPc \in {"returned", "thrown"} /\ exCalls # << >>) =>
          Len(exDelays) = Len(exCalls) - 1

\* C22 witness: three attempts failed with the default maxRetries; the waits
\* were 1000 ms and 2000 ms and none followed the last failure
C22_Witness ==
    /\ exPc = "thrown"
    /\ exMaxRetries = DefaultMaxRetries
    /\ Len(exCalls) = 3
    /\ exDelays = <<1000, 2000>>

HeaderOps(log) == {j \in DOMAIN log : log[j].op = "setHeader"}
PipeOps(log) == {j \in DOMAIN log : log[j].op = "pipeTextStreamToResponse"}

\* C23: no response header is set before the service call has completed with
\* its stream call as the last call issued; Content-Type, Cache-Control and
\* Connection are all set before the stream is piped; and when the service
\* call throws, no header is set and nothing of a stream is written.
C23_HeadersAfterServiceBeforePipe ==
    /\ HeaderOps(resLog) # {} =>
          /\ ServiceReturned
          /\ \A calls \in {eoCalls, seqCalls, rtCalls, parCalls, owCalls, tuCalls} :
                calls # << >> =>
                   /\ Last(calls).fn = "streamObject"
                   /\ StreamCalls(calls) = {Len(calls)}
    /\ \A p \in PipeOps(resLog) :
          {"Content-Type", "Cache-Control", "Connection"}
             \subseteq {resLog[j].arg : j \in {h \in HeaderOps(resLog) : h < p}}
    /\ ServiceThrown =>
          /\ HeaderOps(resLog) = {} /\ PipeOps(resLog) = {}
          /\ resBody.kind # "stream"
          /\ resStatus # 200

\* C23 witness: the Sequential service made its three calls, then the
\* controller set the headers and piped the stream
C23_Witness ==
    /\ seqPc = "returned"
    /\ Len(seqCalls) = 3
    /\ Len(resLog) = 4
    /\ ctlPc = "piping"

\* C23 second witness: the service call threw and the filter answered
C23_WitnessThrown ==
    /\ seqPc = "thrown"
    /\ ctlPc = "closed"
    /\ resStatus = 500

\* C24: for every maxIterations >= 1 the loop leaves through its break and
\* never through the while guard; when every score stays below targetScore
\* there are exactly maxIterations evaluation calls and maxIterations - 1
\* improvement calls, and the last call before the summary is an evaluation.
C24_LeavesByBreak ==
    /\ eoExit # "guard"
    /\ eoPc \in {"summary", "returned"} =>
          /\ eoExit = "break"
          /\ Cardinality(CallsIn(eoCalls, "Improvement"))
                = Cardinality(CallsIn(eoCalls, "Evaluation")) - 1
          /\ LET last == IF eoPc = "returned" THEN Len(eoCalls) - 1 ELSE Len(eoCalls) IN
             eoCalls[last].context = "Evaluation"
          /\ (\A r \in DOMAIN iterations : iterations[r].evaluation.score < targetScore) =>
                /\ Cardinality(CallsIn(eoCalls, "Evaluation")) = maxIterations
                /\ Cardinality(CallsIn(eoCalls, "Improvement")) = maxIterations - 1

\* C24 witness: a budget of three used up by three scores below the target
C24_Witness ==
    /\ eoPc = "returned"
    /\ maxIterations = 3
    /\ Len(iterations) = 3
    /\ \A r \in 1..3 : iterations[r].evaluation.score = 50
    /\ eoExit = "break"

C25_WitnessAfterError ==
    /\ Requests = 2
    /\ isLoading
    /\ Len(messages) = 3
    /\ ReceivedText(SubSeq(messages, 1, 2)) = Truncated
    /\ parseError = NoError

(***************************************************************************)
(* Properties of the utilities and of the client components                *)
(***************************************************************************)
\* C21: once the caller has signalled cancellation (stop), the execution
\* issues no further model or tool call and writes nothing more to the
\* response.
C21_CancellationPropagated ==
    [][aborted => UNCHANGED <<eoCalls, seqCalls, rtCalls, parCalls, owCalls, tuCalls,
                              tuHistory, resLog>>]_vars

\* C26: BaseAIService.selectModel and ModelSelector.selectModel return the
\* same model for every complexity and priority: the complex model when the
\* complexity is 'complex' or the priority is 'quality', the fast model
\* otherwise.
C26_SelectorsAgree ==
    \A i \in DOMAIN smLog :
        LET e == smLog[i] IN
        /\ e.base = e.documented
        /\ e.base = (IF e.complexity = "complex" \/ e.priority = "quality"
                        THEN "complex" ELSE "fast")

C26_Witness ==
    /\ \E i \in DOMAIN smLog :
          smLog[i].complexity = "complex" /\ smLog[i].priority = "speed"
    /\ \E i \in DOMAIN smLog :
          smLog[i].complexity = "moderate" /\ smLog[i].priority = "speed"

C27_WitnessTrimmed ==
    /\ agSubmits # << >>
    /\ agIsLoading
    /\ agInput.length > DefaultMaxInputLength
    /\ agSubmits[Len(agSubmits)].input = AgTrim(agInput)

\* C28: while the Sequential result refines monotonically, the active step
\* of getCurrentStep never decreases; it does not show step 3 and later
\* step 2.
C28_StepNeverDecreases ==
    \A i, j \in DOMAIN sdSteps : i < j => sdSteps[i] <= sdSteps[j]

\* C29: useDebouncedAIStream submits only when the debounced value changes
\* to a new non-empty value, and then that value; a render that leaves the
\* debounced value unchanged causes no submit.
C29_OneSubmitPerSettledValue ==
    [][dbSubmits' # dbSubmits =>
          /\ dbDebounced' # dbDebounced
          /\ dbSubmits' = Append(dbSubmits, DbTrim(dbDebounced'))]_vars

\* C30: generateWithCache invokes the generator for a key at most once per
\* TTL window: once an invocation for the key has succeeded, no other
\* invocation for the key has started before the TTL of its stored value
\* ran out, overlapping calls included.
C30_OncePerWindow ==
    \A i, j \in DOMAIN genLog :
        (/\ i # j
         /\ genLog[i].key = genLog[j].key
         /\ genLog[i].outcome = "ok"
         /\ genLog[i].start <= genLog[j].start)
        => (i > j \/ genLog[j].start >= genLog[i].settled + CACHE_TTL)

====
